---- MODULE Spec2Model ----
\* Verification model of cl2vid-server: the in-memory job registry, the
\* background pipeline processVideoGeneration and the three HTTP handlers of
\* src/routes/video.ts, with the provider services of src/services.
\*
\* JavaScript runs every callback to completion: an action of this model is
\* one synchronous segment of code, from the resumption of an await (or the
\* arrival of a request) to the next await (or the response).
EXTENDS Integers, Sequences, FiniteSets, TLC

VARIABLES env, jobs, hist, task, calls, rets, inflight, remote, proxy, resp, emitted

vars == <<env, jobs, hist, task, calls, rets, inflight, remote, proxy, resp, emitted>>

\* ------------------------------------------------------------------ bounds
\* Number of jobs a run creates.
MaxJobs == 2
\* Number of "not ready yet" answers a provider gives to one polling stage
\* under Spec (SpecDeep lets the provider stall for ever).
MaxPending == 1
\* Number of getResult requests suspended in their upstream fetch at once.
MaxProxy == 1

\* ------------------------------------------------------- program constants
\* higgsfield.ts:79 and :259, "const maxAttempts = 60"
maxAttempts == 60

JobIds == 1..MaxJobs
\* A jobId path parameter that is not a UUID (schemas/video.ts:19-27); the ids
\* randomUUID allocates are the ordinals from 1 on.
NotUuid == 0
\* ids a client may ask for: the allocated ones, one never allocated, and one
\* that is not a UUID
AskIds == {NotUuid} \cup 1..(MaxJobs + 1)

NoResp == [op |-> "none"]

\* ------------------------------------------------------------------- URLs
\* A URL is a sequence of tokens, each token standing for a run of characters.
\* The separators the code looks at ("?", "&", "/", "#", "@", ".") are tokens
\* of their own, so that includes(), endsWith() and the regular expression of
\* the code are computed position by position.
KEY == "K"
SCHEME == "https://"
GEN_HOST == <<"generativelanguage", ".", "googleapis", ".", "com">>
STORAGE_HOST == <<"storage", ".", "googleapis", ".", "com">>

\* video.ts:23-26
ALLOWED_VIDEO_DOMAINS == {GEN_HOST, STORAGE_HOST}

Range(s) == {s[i] : i \in 1..Len(s)}

\* String.prototype.includes for a one-token needle
Includes(s, tok) == tok \in Range(s)

\* String.prototype.endsWith
EndsWith(s, suffix) ==
    /\ Len(suffix) <= Len(s)
    /\ SubSeq(s, Len(s) - Len(suffix) + 1, Len(s)) = suffix

Min(S) == CHOOSE x \in S : \A y \in S : x <= y
Max(S) == CHOOSE x \in S : \A y \in S : x >= y

\* new URL(url): the scheme must be there; the authority runs to the first
\* "/", "?" or "#"; the hostname is what follows the last "@" of the authority.
\* The result is [ok, hostname]; ok = FALSE stands for the TypeError.
ParseUrl(url) ==
    IF Len(url) < 2 \/ url[1] # SCHEME
    THEN [ok |-> FALSE, hostname |-> <<>>]
    ELSE LET stops == {i \in 2..Len(url) : url[i] \in {"/", "?", "#"}}
             last == IF stops = {} THEN Len(url) ELSE Min(stops) - 1
             ats == {i \in 2..last : url[i] = "@"}
             first == IF ats = {} THEN 2 ELSE Max(ats) + 1
             host == SubSeq(url, first, last)
         IN  IF host = <<>>
             THEN [ok |-> FALSE, hostname |-> <<>>]
             ELSE [ok |-> TRUE, hostname |-> host]

\* Faulty variant: the domain is looked for anywhere in the URL.
isAllowedDomainIncludes(url) ==
    \E domain \in ALLOWED_VIDEO_DOMAINS :
        \E i \in 1..Len(url) :
            /\ i + Len(domain) - 1 <= Len(url)
            /\ SubSeq(url, i, i + Len(domain) - 1) = domain

\* Faulty variant: hostname.endsWith(domain), without the separating dot.
isAllowedDomainEndsWith(url) ==
    LET p == ParseUrl(url)
    IN  p.ok /\ \E domain \in ALLOWED_VIDEO_DOMAINS : EndsWith(p.hostname, domain)

\* video.ts:31-40
isAllowedDomain(url) ==
    LET parsedUrl == ParseUrl(url)
    IN  /\ parsedUrl.ok
        /\ \E domain \in ALLOWED_VIDEO_DOMAINS :
              \/ parsedUrl.hostname = domain
              \/ EndsWith(parsedUrl.hostname, <<".">> \o domain)

\* Faulty variant: /[?&]key=.*/, the rest of the URL goes with the key.
StripKeyAndRest(url) ==
    LET starts == {i \in 1..Len(url) :
                      /\ url[i] \in {"?", "&"}
                      /\ i + 1 <= Len(url)
                      /\ url[i + 1] = "key="}
    IN  IF starts = {} THEN url ELSE SubSeq(url, 1, Min(starts) - 1)

\* video.ts:313, videoUrlWithKey.replace(/[?&]key=[^&]+/, ''): the first
\* match only (no g flag); [^&]+ needs one character and runs to the next "&".
StripKey(url) ==
    LET starts == {i \in 1..Len(url) :
                      /\ url[i] \in {"?", "&"}
                      /\ i + 2 <= Len(url)
                      /\ url[i + 1] = "key="
                      /\ url[i + 2] # "&"}
    IN  IF starts = {} THEN url
        ELSE LET i == Min(starts)
                 amps == {k \in (i + 2)..Len(url) : url[k] = "&"}
                 e == IF amps = {} THEN Len(url) ELSE Min(amps) - 1
             IN  SubSeq(url, 1, i - 1) \o SubSeq(url, e + 1, Len(url))

\* higgsfield.ts:275-279, "Add API key to the URI if not already present"
AddKeyIfMissing(videoUri, apiKey) ==
    IF ~Includes(videoUri, "key=")
    THEN LET separator == IF Includes(videoUri, "?") THEN "&" ELSE "?"
         IN  videoUri \o <<separator, "key=", apiKey>>
    ELSE videoUri

\* video.ts:241-243
UrlWithKey(videoUrl, apiKey) ==
    IF Includes(videoUrl, "?")
    THEN videoUrl \o <<"&", "key=", apiKey>>
    ELSE videoUrl \o <<"?", "key=", apiKey>>

\* video.ts:200
ProxyUrl(jobId) == <<"/v1/api/videos/", ToString(jobId)>>

\* ------------------------------------------------------------ input domains
\* Lines of a changelog.  A line is a version header when one of the regular
\* expressions of changelog.ts:32 matches it.
VersionHeaders == {"## [1.1.0]", "## [1.0.0]", "# v2.0.0"}
TextLines == {"# Changelog", "- fix", ""}

\* changelog.ts:32
isVersionHeader(line) == line \in VersionHeaders

\* Contents the changelog host serves; under Spec, where the jobs interleave,
\* it serves the one of TwoReleases.
TwoReleases ==
    {<<"# Changelog", "", "## [1.1.0]", "- fix", "", "## [1.0.0]", "- fix">>}
Changelogs ==
    TwoReleases
      \cup {<<"# Changelog", "- fix">>,
            <<"# v2.0.0", "- fix", "## [1.1.0]", "- fix", "", "## [1.0.0]">>}

\* Request bodies that pass GenerateVideoRequestSchema (schemas/video.ts:4-17).
ChangelogUrls == {"https://github.com/o/r/blob/main/CHANGELOG.md"}
\* Under Spec the requests leave both options to their defaults.
DefaultOptions == {<<"16:9", "1080p">>}
Options == DefaultOptions \cup {<<"9:16", "720p">>}

\* Texts the language model returns: words between optional blanks, or nothing.
ModelTexts == {<<" ", "script", " ">>, <<>>}
PromptTexts == {<<"prompt", " ">>, <<>>}

\* Higgsfield job-set ids and image URLs.
HiggsfieldIds == {"hf-1"}
ImageUrls == {"https://img/raw.png"}

\* URIs the video provider reports.  The provider may or may not have put the
\* key parameter into the URI itself (higgsfield.ts:275 expects both), before
\* or after other parameters, once or repeated; the host is the provider's
\* choice.
F == <<"/", "f">>
VideoUris ==
    { <<SCHEME>> \o GEN_HOST \o F,
      <<SCHEME>> \o GEN_HOST \o F \o <<"?", "alt=", "media">>,
      <<SCHEME>> \o GEN_HOST \o F \o <<"?", "key=", KEY>>,
      <<SCHEME>> \o GEN_HOST \o F \o <<"?", "key=", KEY, "&", "alt=", "media">>,
      <<SCHEME>> \o GEN_HOST \o F \o <<"?", "alt=", "media", "&", "key=", KEY>>,
      <<SCHEME>> \o GEN_HOST \o F \o <<"?", "key=", KEY, "&", "key=", KEY>>,
      <<SCHEME>> \o <<"sub", ".">> \o STORAGE_HOST \o F,
      <<SCHEME, "evil", ".", "com", "/">> \o STORAGE_HOST \o <<"/", "x">>,
      <<SCHEME, "evil", "-">> \o STORAGE_HOST \o <<".", "attacker", ".", "com">> \o F,
      <<SCHEME, "evil">> \o STORAGE_HOST \o F,
      STORAGE_HOST \o F }

\* process.env: "" stands for an unset (or empty) variable.
Envs ==
    { [GEMINI_API_KEY |-> KEY, HIGGSFIELD |-> TRUE],
      [GEMINI_API_KEY |-> "", HIGGSFIELD |-> TRUE],
      [GEMINI_API_KEY |-> KEY, HIGGSFIELD |-> FALSE] }

\* ------------------------------------------------------------------ errors
\* A thrown value.  Every throw of the source is "throw new Error(...)", and
\* fetch rejects with a TypeError.
Err(msg) == [isError |-> TRUE, message |-> msg]

\* Faulty variant: the message of the error is dropped.
ErrorMessageUnknown(error) == "Unknown error"

\* video.ts:324, error instanceof Error ? error.message : 'Unknown error'
ErrorMessage(error) == IF error.isError THEN error.message ELSE "Unknown error"

\* ----------------------------------------------------------- pure functions
\* String.prototype.trim on a text given as tokens (blank tokens: " ", "").
Blank(tok) == tok \in {" ", ""}

RECURSIVE TrimLeft(_)
TrimLeft(s) == IF s # <<>> /\ Blank(Head(s)) THEN TrimLeft(Tail(s)) ELSE s

RECURSIVE TrimRight(_)
TrimRight(s) ==
    IF s # <<>> /\ Blank(s[Len(s)]) THEN TrimRight(SubSeq(s, 1, Len(s) - 1)) ELSE s

Trim(s) == TrimRight(TrimLeft(s))

\* Faulty variant: the loop does not stop at the second version header (no
\* break, no foundSecondRelease); later headers are skipped, their lines kept.
RECURSIVE ReleaseLinesNoBreak(_, _, _)
ReleaseLinesNoBreak(lines, i, foundFirstRelease) ==
    IF i > Len(lines) THEN <<>>
    ELSE IF isVersionHeader(lines[i])
         THEN IF ~foundFirstRelease
              THEN <<lines[i]>> \o ReleaseLinesNoBreak(lines, i + 1, TRUE)
              ELSE ReleaseLinesNoBreak(lines, i + 1, TRUE)
         ELSE IF foundFirstRelease
              THEN <<lines[i]>> \o ReleaseLinesNoBreak(lines, i + 1, TRUE)
              ELSE ReleaseLinesNoBreak(lines, i + 1, FALSE)

\* changelog.ts:30-45, the loop: the lines collected from position i on.
RECURSIVE ReleaseLines(_, _, _)
ReleaseLines(lines, i, foundFirstRelease) ==
    IF i > Len(lines) THEN <<>>
    ELSE IF isVersionHeader(lines[i])
         THEN IF ~foundFirstRelease
              THEN <<lines[i]>> \o ReleaseLines(lines, i + 1, TRUE)
              ELSE <<>>
         ELSE IF foundFirstRelease
              THEN <<lines[i]>> \o ReleaseLines(lines, i + 1, TRUE)
              ELSE ReleaseLines(lines, i + 1, FALSE)

FirstLines == 50

\* changelog.ts:23-53.  A text is the sequence of its lines; trim() of the
\* joined text removes the blank lines at both ends.
extractLatestRelease(changelog) ==
    LET releaseLines == ReleaseLines(changelog, 1, FALSE)
    IN  IF Len(releaseLines) = 0
        THEN SubSeq(changelog, 1, IF Len(changelog) < FirstLines
                                  THEN Len(changelog) ELSE FirstLines)
        ELSE Trim(releaseLines)

\* ---------------------------------------------------------------- registry
\* video.ts:20, const jobs = new Map<string, JobResponse>().  A JobResponse is
\* a record; its optional fields videoUrl and error are fields the record has
\* or has not (schemas/video.ts:30-49).
Has(job, field) == field \in DOMAIN job

\* job.field = value
SetField(job, field, value) ==
    [f \in DOMAIN job \cup {field} |-> IF f = field THEN value ELSE job[f]]

\* Faulty variant: the entries of all keys are replaced.
MapSetAll(map, key, value) == [k \in DOMAIN map \cup {key} |-> value]

\* jobs.set(jobId, job)
MapSet(map, key, value) ==
    [k \in DOMAIN map \cup {key} |-> IF k = key THEN value ELSE map[k]]

\* video.ts:150, crypto.randomUUID(): an id no job has had; ids are numbered
\* in the order of their allocation.
randomUUID(map) == Cardinality(DOMAIN map) + 1

\* video.ts:151-156; createdAt is the ordinal of the creation.
NewJob(jobId, changelogUrl) ==
    [id |-> jobId, status |-> "queued", createdAt |-> jobId,
     changelogUrl |-> changelogUrl]

\* video.ts:287
MarkProcessing(job) == SetField(job, "status", "processing")

\* Faulty variant: the status is stored, the reference is not.
MarkCompletedStatusOnly(job, videoUrlWithoutKey) ==
    SetField(job, "status", "completed")

\* video.ts:316-317
MarkCompleted(job, videoUrlWithoutKey) ==
    SetField(SetField(job, "status", "completed"), "videoUrl", videoUrlWithoutKey)

\* video.ts:323-324, the catch block of processVideoGeneration
MarkFailed(job, error) ==
    SetField(SetField(job, "status", "failed"), "error", ErrorMessage(error))

\* Faulty variant: the handler is attached with finally(), it runs on every outcome.
PromiseSettled(kind) == TRUE

\* Faulty variant: the catch block rethrows after it has stored the failure.
PromiseRejectedOnThrow(kind) == kind = "throw"

\* The promise of processVideoGeneration: its try/catch (video.ts:285-326)
\* encloses every await, so it is fulfilled whatever the pipeline did.
PromiseRejected(kind) == FALSE

\* video.ts:161-168, the .catch handler of the background call: the records it
\* stores after the pipeline has stored job.
BackgroundCatch(job, kind, error) ==
    IF PromiseRejected(kind) THEN <<MarkFailed(job, error)>> ELSE <<>>

\* ------------------------------------------------------- pipeline segments
\* The outcome of one synchronous segment of processVideoGeneration: the calls
\* it made, the values that came back, the functions that left the stack and
\* the one now awaited, and how the segment ended.
Call(fn, args) == [fn |-> fn, args |-> args]
Ret(fn, value) == [fn |-> fn, value |-> value]

Await(t, cs, rs, returned, issued) ==
    [kind |-> "await", task |-> t, calls |-> cs, rets |-> rs,
     returned |-> returned, issued |-> issued]

Throw(error, cs, rs, returned) ==
    [kind |-> "throw", error |-> error, calls |-> cs, rets |-> rs,
     returned |-> returned, issued |-> {}]

Return(value, cs, rs, returned) ==
    [kind |-> "return", value |-> value, calls |-> cs, rets |-> rs,
     returned |-> returned, issued |-> {}]

Ok(value) == [ok |-> TRUE, value |-> value]
Fail(msg) == [ok |-> FALSE, error |-> Err(msg)]

\* video.ts:282-292: the segment createJob runs before it answers.
StartPipeline(changelogUrl, opts) ==
    Await([pc |-> "fetchChangelog", attempts |-> 0, opts |-> opts, script |-> <<>>],
          <<Call("fetchChangelog", <<changelogUrl>>)>>, <<>>,
          {}, {"fetchChangelog"})

\* changelog.ts:10-17
FetchOutcomes(contents) ==
    {Ok(c) : c \in contents}
      \cup {Fail("Failed to fetch changelog: Not Found"), Fail("fetch failed")}

\* video.ts:292-297 with higgsfield.ts:134-138
AfterFetchChangelog(t, e, out) ==
    IF ~out.ok THEN Throw(out.error, <<>>, <<>>, {"fetchChangelog"})
    ELSE LET latestRelease == extractLatestRelease(out.value)
             cs == <<Call("analyzeChangelog", <<latestRelease>>)>>
             rs == <<Ret("fetchChangelog", out.value)>>
         IN  IF e.GEMINI_API_KEY = ""
             THEN Throw(Err("GEMINI_API_KEY is not set"), cs, rs,
                        {"fetchChangelog", "analyzeChangelog"})
             ELSE Await([t EXCEPT !.pc = "analyzeChangelog"], cs, rs,
                        {"fetchChangelog"}, {"analyzeChangelog"})

\* higgsfield.ts:143-165
AnalyzeOutcomes ==
    {Ok(x) : x \in ModelTexts} \cup {Fail("Gemini: request rejected by policy")}

\* video.ts:297-301 with higgsfield.ts:159-176
AfterAnalyzeChangelog(t, e, out) ==
    IF ~out.ok THEN Throw(out.error, <<>>, <<>>, {"analyzeChangelog"})
    ELSE IF out.value = <<>>
    THEN Throw(Err("No text generated from Gemini"), <<>>, <<>>, {"analyzeChangelog"})
    ELSE LET script == Trim(out.value)
             cs == <<Call("generateImagePrompt", <<script>>)>>
             rs == <<Ret("analyzeChangelog", script)>>
         IN  IF e.GEMINI_API_KEY = ""
             THEN Throw(Err("GEMINI_API_KEY is not set"), cs, rs,
                        {"analyzeChangelog", "generateImagePrompt"})
             ELSE Await([t EXCEPT !.pc = "generateImagePrompt", !.script = script],
                        cs, rs, {"analyzeChangelog"}, {"generateImagePrompt"})

\* higgsfield.ts:180-202
PromptOutcomes ==
    {Ok(x) : x \in PromptTexts} \cup {Fail("Gemini: service unavailable")}

\* video.ts:301-305 with higgsfield.ts:196-202 and :29-34
AfterGenerateImagePrompt(t, e, out) ==
    IF ~out.ok THEN Throw(out.error, <<>>, <<>>, {"generateImagePrompt"})
    ELSE IF out.value = <<>>
    THEN Throw(Err("No image prompt generated from Gemini"), <<>>, <<>>,
               {"generateImagePrompt"})
    ELSE LET imagePrompt == Trim(out.value)
             cs == <<Call("generateImage", <<imagePrompt>>)>>
             rs == <<Ret("generateImagePrompt", imagePrompt)>>
         IN  IF ~e.HIGGSFIELD
             THEN Throw(Err("HIGGSFIELD_API_KEY or HIGGSFIELD_SECRET is not set"),
                        cs, rs, {"generateImagePrompt", "generateImage"})
             ELSE Await([t EXCEPT !.pc = "generateImage"], cs, rs,
                        {"generateImagePrompt"}, {"generateImage"})

\* higgsfield.ts:36-65
ImageOutcomes ==
    {Ok(x) : x \in HiggsfieldIds \cup {""}}
      \cup {Fail("Higgsfield API error: bad request"), Fail("fetch failed")}

\* video.ts:305-306 with higgsfield.ts:54-65 and :72-89
AfterGenerateImage(t, e, out) ==
    IF ~out.ok THEN Throw(out.error, <<>>, <<>>, {"generateImage"})
    ELSE IF out.value = ""
    THEN Throw(Err("No job ID returned from Higgsfield"), <<>>, <<>>, {"generateImage"})
    ELSE LET higgsfieldJobId == out.value
             cs == <<Call("pollHiggsfieldJob", <<higgsfieldJobId>>)>>
             rs == <<Ret("generateImage", higgsfieldJobId)>>
         IN  IF ~e.HIGGSFIELD
             THEN Throw(Err("HIGGSFIELD_API_KEY or HIGGSFIELD_SECRET is not set"),
                        cs, rs, {"generateImage", "pollHiggsfieldJob"})
             ELSE IF 0 < maxAttempts
             THEN Await([t EXCEPT !.pc = "pollFetch", !.attempts = 0], cs, rs,
                        {"generateImage"}, {"pollHiggsfieldJob"})
             ELSE Throw(Err("Image generation timeout"), cs, rs,
                        {"generateImage", "pollHiggsfieldJob"})

\* Answers of GET /v1/job-sets/{id} (higgsfield.ts:3-23): the HTTP status, the
\* first job of the set if any, its status and its raw result URL ("" if none).
HiggsfieldStatuses == {"queued", "in_progress", "completed", "failed", "nsfw"}
PollResponses ==
    {[ok |-> FALSE, hasJob |-> FALSE, status |-> "", url |-> ""],
     [ok |-> TRUE, hasJob |-> FALSE, status |-> "", url |-> ""]}
      \cup {[ok |-> TRUE, hasJob |-> TRUE, status |-> st, url |-> u] :
               st \in HiggsfieldStatuses, u \in ImageUrls \cup {""}}

\* higgsfield.ts:103-113: the answers that make the loop wait and poll again
ImagePending(out) ==
    /\ out.ok /\ out.hasJob
    /\ out.status \notin {"failed", "nsfw"}
    /\ ~(out.status = "completed" /\ out.url # "")

\* Faulty variant: generateVideo is called with script and image URL swapped.
AfterPollFetchSwapped(t, e, out) ==
    IF ~out.ok
    THEN Throw(Err("Higgsfield polling error: unavailable"), <<>>, <<>>,
               {"pollHiggsfieldJob"})
    ELSE IF ~out.hasJob
    THEN Throw(Err("No job found in response"), <<>>, <<>>, {"pollHiggsfieldJob"})
    ELSE IF out.status = "failed"
    THEN Throw(Err("Image generation failed"), <<>>, <<>>, {"pollHiggsfieldJob"})
    ELSE IF out.status = "nsfw"
    THEN Throw(Err("Image generation rejected: NSFW content detected"), <<>>, <<>>,
               {"pollHiggsfieldJob"})
    ELSE IF out.status = "completed" /\ out.url # ""
    THEN LET imageUrl == out.url
             cs == <<Call("generateVideo",
                          <<t.script, imageUrl, t.opts[1], t.opts[2]>>)>>
             rs == <<Ret("pollHiggsfieldJob", imageUrl)>>
         IN  IF e.GEMINI_API_KEY = ""
             THEN Throw(Err("GEMINI_API_KEY is not set"), cs, rs,
                        {"pollHiggsfieldJob", "generateVideo"})
             ELSE Await([t EXCEPT !.pc = "downloadImage"], cs, rs,
                        {"pollHiggsfieldJob"}, {"generateVideo"})
    ELSE Await([t EXCEPT !.pc = "pollSleep"], <<>>, <<>>, {}, {})

\* Faulty variant: a non-2xx answer to a status check counts as "not ready".
AfterPollFetchRetrying(t, e, out) ==
    IF ~out.ok
    THEN Await([t EXCEPT !.pc = "pollSleep"], <<>>, <<>>, {}, {})
    ELSE IF ~out.hasJob
    THEN Throw(Err("No job found in response"), <<>>, <<>>, {"pollHiggsfieldJob"})
    ELSE IF out.status = "failed"
    THEN Throw(Err("Image generation failed"), <<>>, <<>>, {"pollHiggsfieldJob"})
    ELSE IF out.status = "nsfw"
    THEN Throw(Err("Image generation rejected: NSFW content detected"), <<>>, <<>>,
               {"pollHiggsfieldJob"})
    ELSE IF out.status = "completed" /\ out.url # ""
    THEN LET imageUrl == out.url
             cs == <<Call("generateVideo",
                          <<imageUrl, t.script, t.opts[1], t.opts[2]>>)>>
             rs == <<Ret("pollHiggsfieldJob", imageUrl)>>
         IN  IF e.GEMINI_API_KEY = ""
             THEN Throw(Err("GEMINI_API_KEY is not set"), cs, rs,
                        {"pollHiggsfieldJob", "generateVideo"})
             ELSE Await([t EXCEPT !.pc = "downloadImage"], cs, rs,
                        {"pollHiggsfieldJob"}, {"generateVideo"})
    ELSE Await([t EXCEPT !.pc = "pollSleep"], <<>>, <<>>, {}, {})

\* Faulty variant: if (job.status === 'completed') return the URL, be it empty.
AfterPollFetchStatusOnly(t, e, out) ==
    IF ~out.ok
    THEN Throw(Err("Higgsfield polling error: unavailable"), <<>>, <<>>,
               {"pollHiggsfieldJob"})
    ELSE IF ~out.hasJob
    THEN Throw(Err("No job found in response"), <<>>, <<>>, {"pollHiggsfieldJob"})
    ELSE IF out.status = "failed"
    THEN Throw(Err("Image generation failed"), <<>>, <<>>, {"pollHiggsfieldJob"})
    ELSE IF out.status = "nsfw"
    THEN Throw(Err("Image generation rejected: NSFW content detected"), <<>>, <<>>,
               {"pollHiggsfieldJob"})
    ELSE IF out.status = "completed"
    THEN LET imageUrl == out.url
             cs == <<Call("generateVideo",
                          <<imageUrl, t.script, t.opts[1], t.opts[2]>>)>>
             rs == <<Ret("pollHiggsfieldJob", imageUrl)>>
         IN  IF e.GEMINI_API_KEY = ""
             THEN Throw(Err("GEMINI_API_KEY is not set"), cs, rs,
                        {"pollHiggsfieldJob", "generateVideo"})
             ELSE Await([t EXCEPT !.pc = "downloadImage"], cs, rs,
                        {"pollHiggsfieldJob"}, {"generateVideo"})
    ELSE Await([t EXCEPT !.pc = "pollSleep"], <<>>, <<>>, {}, {})

\* higgsfield.ts:91-116, then video.ts:306-310 with higgsfield.ts:226-235
AfterPollFetch(t, e, out) ==
    IF ~out.ok
    THEN Throw(Err("Higgsfield polling error: unavailable"), <<>>, <<>>,
               {"pollHiggsfieldJob"})
    ELSE IF ~out.hasJob
    THEN Throw(Err("No job found in response"), <<>>, <<>>, {"pollHiggsfieldJob"})
    ELSE IF out.status = "failed"
    THEN Throw(Err("Image generation failed"), <<>>, <<>>, {"pollHiggsfieldJob"})
    ELSE IF out.status = "nsfw"
    THEN Throw(Err("Image generation rejected: NSFW content detected"), <<>>, <<>>,
               {"pollHiggsfieldJob"})
    ELSE IF out.status = "completed" /\ out.url # ""
    THEN LET imageUrl == out.url
             cs == <<Call("generateVideo",
                          <<imageUrl, t.script, t.opts[1], t.opts[2]>>)>>
             rs == <<Ret("pollHiggsfieldJob", imageUrl)>>
         IN  IF e.GEMINI_API_KEY = ""
             THEN Throw(Err("GEMINI_API_KEY is not set"), cs, rs,
                        {"pollHiggsfieldJob", "generateVideo"})
             ELSE Await([t EXCEPT !.pc = "downloadImage"], cs, rs,
                        {"pollHiggsfieldJob"}, {"generateVideo"})
    ELSE Await([t EXCEPT !.pc = "pollSleep"], <<>>, <<>>, {}, {})

\* Faulty variant: exhaustion is reported with the error of a provider failure.
AfterPollSleepSameError(t) ==
    LET attempts == t.attempts + 1
    IN  IF attempts < maxAttempts
        THEN Await([t EXCEPT !.pc = "pollFetch", !.attempts = attempts],
                   <<>>, <<>>, {}, {})
        ELSE Throw(Err("Image generation failed"), <<>>, <<>>, {"pollHiggsfieldJob"})

\* higgsfield.ts:116-120 and :82
AfterPollSleep(t) ==
    LET attempts == t.attempts + 1
    IN  IF attempts < maxAttempts
        THEN Await([t EXCEPT !.pc = "pollFetch", !.attempts = attempts],
                   <<>>, <<>>, {}, {})
        ELSE Throw(Err("Image generation timeout"), <<>>, <<>>, {"pollHiggsfieldJob"})

\* higgsfield.ts:208-215
DownloadOutcomes ==
    {Ok("png"), Fail("Failed to download image: Not Found"), Fail("fetch failed")}

\* higgsfield.ts:235-254
AfterDownloadImage(t, out) ==
    IF ~out.ok THEN Throw(out.error, <<>>, <<>>, {"generateVideo"})
    ELSE Await([t EXCEPT !.pc = "generateVideos"], <<>>, <<>>, {}, {})

\* higgsfield.ts:243-254
StartVideoOutcomes == {Ok("operations/1"), Fail("Veo: quota exceeded")}

\* higgsfield.ts:243-264
AfterGenerateVideos(t, out) ==
    IF ~out.ok THEN Throw(out.error, <<>>, <<>>, {"generateVideo"})
    ELSE IF 0 < maxAttempts
    THEN Await([t EXCEPT !.pc = "getVideosOperation", !.attempts = 0],
               <<>>, <<>>, {}, {})
    ELSE Throw(Err("Video generation timeout"), <<>>, <<>>, {"generateVideo"})

\* Answers of getVideosOperation: a failure, or the operation with its done
\* flag and the URI of its first generated video (<<>> if it has none).
OperationResponses ==
    {[ok |-> FALSE, done |-> FALSE, uri |-> <<>>],
     [ok |-> TRUE, done |-> FALSE, uri |-> <<>>]}
      \cup {[ok |-> TRUE, done |-> TRUE, uri |-> u] : u \in VideoUris \cup {<<>>}}

\* higgsfield.ts:268
VideoPending(out) == out.ok /\ ~out.done

\* higgsfield.ts:264-289
AfterGetVideosOperation(t, e, out) ==
    IF ~out.ok
    THEN Throw(Err("Veo: operation lookup failed"), <<>>, <<>>, {"generateVideo"})
    ELSE IF out.done
    THEN IF out.uri # <<>>
         THEN LET videoUri == AddKeyIfMissing(out.uri, e.GEMINI_API_KEY)
              IN  Return(videoUri, <<>>, <<Ret("generateVideo", videoUri)>>,
                         {"generateVideo"})
         ELSE Throw(Err("Operation completed but no video URI found"), <<>>, <<>>,
                    {"generateVideo"})
    ELSE Await([t EXCEPT !.pc = "videoSleep"], <<>>, <<>>, {}, {})

\* Faulty variant: the loop does not count its attempts (no attempts++).
AfterVideoSleepNoCount(t) ==
    IF t.attempts < maxAttempts
    THEN Await([t EXCEPT !.pc = "getVideosOperation"], <<>>, <<>>, {}, {})
    ELSE Throw(Err("Video generation timeout"), <<>>, <<>>, {"generateVideo"})

\* Faulty variant: while (attempts <= maxAttempts)
AfterVideoSleepOffByOne(t) ==
    LET attempts == t.attempts + 1
    IN  IF attempts <= maxAttempts
        THEN Await([t EXCEPT !.pc = "getVideosOperation", !.attempts = attempts],
                   <<>>, <<>>, {}, {})
        ELSE Throw(Err("Video generation timeout"), <<>>, <<>>, {"generateVideo"})

\* higgsfield.ts:289-293 and :262
AfterVideoSleep(t) ==
    LET attempts == t.attempts + 1
    IN  IF attempts < maxAttempts
        THEN Await([t EXCEPT !.pc = "getVideosOperation", !.attempts = attempts],
                   <<>>, <<>>, {}, {})
        ELSE Throw(Err("Video generation timeout"), <<>>, <<>>, {"generateVideo"})

\* video.ts:312-326: the records processVideoGeneration stores when the
\* segment ends the try block, followed by those of the .catch handler.
Stored(job, seg) ==
    IF seg.kind = "return"
    THEN LET videoUrlWithoutKey == StripKey(seg.value)
             done == MarkCompleted(job, videoUrlWithoutKey)
         IN  <<done>> \o BackgroundCatch(done, seg.kind, Err("unreachable"))
    ELSE IF seg.kind = "throw"
    THEN LET failed == MarkFailed(job, seg.error)
         IN  <<failed>> \o BackgroundCatch(failed, seg.kind, seg.error)
    ELSE <<>>

\* logger calls of a segment: video.ts:320 and :322
Logged(seg) ==
    IF seg.kind = "return" THEN {[level |-> "info", about |-> "pipeline"]}
    ELSE IF seg.kind = "throw" THEN {[level |-> "error", about |-> "pipeline"]}
    ELSE {}

\* -------------------------------------------------------------------- state
\* env       process.env, read-only after start-up
\* jobs      the registry (video.ts:20)
\* hist      per job, every record value the code has stored, in order
\* task      per job, the locals of its suspended processVideoGeneration
\* calls     per job, the pipeline functions called so far, with arguments
\* rets      per job, the values those functions have returned
\* inflight  per job, the pipeline functions called and not yet settled
\* remote    per job, the remote operations it started, the status checks and
\*           interval waits of its current polling stage, and how the remote
\*           operation that returned last ended
\* proxy     the getResult requests suspended in fetch(urlWithKey)
\* resp      the response sent by the last step, if it sent one
\* emitted   the logger lines written by the last step
Init ==
    /\ env \in Envs
    /\ jobs = <<>>
    /\ hist = <<>>
    /\ task = <<>>
    /\ calls = <<>>
    /\ rets = <<>>
    /\ inflight = <<>>
    /\ remote = <<>>
    /\ proxy = <<>>
    /\ resp = NoResp
    /\ emitted = {}

\* jobs.get(jobId) !== undefined
Known(jobId) == jobId \in DOMAIN jobs

\* video.ts:170, c.json(job, 200): job is the object the registry holds, read
\* when the handler answers, after the first segment of the pipeline has run.
CreateResponse(created, current) == current

\* POST /v1/api/generate-video, video.ts:145-180.  The body has passed the
\* schema; nothing of lines 147-170 throws, so the 500 branch is not taken.
CreateJob(changelogUrl, opts, cap) ==
    /\ Cardinality(DOMAIN jobs) < cap
    /\ LET jobId == randomUUID(jobs)
           job == NewJob(jobId, changelogUrl)
           seg == StartPipeline(changelogUrl, opts)
           processing == MarkProcessing(job)
       IN  /\ jobs' = MapSet(jobs, jobId, processing)
           /\ hist' = MapSet(hist, jobId, <<job, processing>>)
           /\ task' = MapSet(task, jobId, seg.task)
           /\ calls' = MapSet(calls, jobId, seg.calls)
           /\ rets' = MapSet(rets, jobId, seg.rets)
           /\ inflight' = MapSet(inflight, jobId, seg.issued)
           /\ remote' = MapSet(remote, jobId,
                               [ops |-> <<seg.task.pc>>, checks |-> 0, waits |-> 0,
                                seen |-> "none"])
           /\ resp' = [op |-> "createJob", id |-> jobId, code |-> 200,
                       body |-> CreateResponse(job, processing)]
           /\ emitted' = {[level |-> "info", about |-> "pipeline"]}
    /\ UNCHANGED <<env, proxy>>

\* The remote operations a pipeline starts once (the polling loops repeat
\* pollFetch and getVideosOperation, and wait in pollSleep and videoSleep).
Initiating ==
    {"fetchChangelog", "analyzeChangelog", "generateImagePrompt", "generateImage",
     "downloadImage", "generateVideos"}

\* The account of job j's remote operations after the operation awaited at pc
\* has ended as seen and the segment seg has run.  Checks and waits are counted
\* up to maxAttempts + 1.
Observed(r, pc, seg, seen) ==
    LET npc == IF seg.kind = "await" THEN seg.task.pc ELSE "done"
        fresh == pc \in {"generateImage", "generateVideos"}
    IN  [ops |-> IF npc # pc /\ npc \in Initiating THEN Append(r.ops, npc)
                 ELSE r.ops,
         checks |-> IF pc \in {"pollFetch", "getVideosOperation"}
                    THEN Min({r.checks + 1, maxAttempts + 1})
                    ELSE IF fresh THEN 0 ELSE r.checks,
         waits |-> IF pc \in {"pollSleep", "videoSleep"}
                   THEN Min({r.waits + 1, maxAttempts + 1})
                   ELSE IF fresh THEN 0 ELSE r.waits,
         seen |-> seen]

\* How a remote operation ended: it failed (rejected, non-2xx), or it answered.
Seen(out) == IF out.ok THEN "answered" ELSE "error"

\* How a status check of the image ended (higgsfield.ts:91-113): no usable
\* answer, the provider reports failure, not ready yet, or the image URL.
PollSeen(out) ==
    IF ~out.ok \/ ~out.hasJob THEN "error"
    ELSE IF out.status \in {"failed", "nsfw"} THEN "failed"
    ELSE IF ImagePending(out) THEN "pending"
    ELSE "answered"

\* How a status check of the video operation ended (higgsfield.ts:264-286).
OperationSeen(out) ==
    IF ~out.ok THEN "error"
    ELSE IF VideoPending(out) THEN "pending"
    ELSE IF out.uri = <<>> THEN "failed"
    ELSE "answered"

\* The resumption of processVideoGeneration for job j with segment seg.
Resume(j, seg, seen) ==
    LET stored == Stored(jobs[j], seg)
    IN  /\ remote' = [remote EXCEPT ![j] = Observed(@, task[j].pc, seg, seen)]
        /\ jobs' = IF stored = <<>> THEN jobs
                   ELSE MapSet(jobs, j, stored[Len(stored)])
        /\ hist' = [hist EXCEPT ![j] = @ \o stored]
        /\ task' = [task EXCEPT ![j] = IF seg.kind = "await" THEN seg.task
                                       ELSE [@ EXCEPT !.pc = "done"]]
        /\ calls' = [calls EXCEPT ![j] = @ \o seg.calls]
        /\ rets' = [rets EXCEPT ![j] = @ \o seg.rets]
        /\ inflight' = [inflight EXCEPT ![j] = (@ \ seg.returned) \cup seg.issued]
        /\ emitted' = Logged(seg)
        /\ resp' = NoResp
        /\ UNCHANGED <<env, proxy>>

\* Faulty variant: one worker runs the pipelines in the order of creation; a
\* pipeline resumes only when those of all earlier jobs have ended.
AtInTurn(j, pc) ==
    /\ Known(j) /\ task[j].pc = pc
    /\ \A k \in DOMAIN jobs : k < j => task[k].pc = "done"

\* Job j's processVideoGeneration is suspended in the await of pc; the event
\* loop resumes it when the awaited promise settles, whatever other jobs do.
At(j, pc) == Known(j) /\ task[j].pc = pc

FetchChangelogReturns(j, contents) ==
    /\ At(j, "fetchChangelog")
    /\ \E out \in FetchOutcomes(contents) : Resume(j, AfterFetchChangelog(task[j], env, out), Seen(out))

AnalyzeChangelogReturns(j) ==
    /\ At(j, "analyzeChangelog")
    /\ \E out \in AnalyzeOutcomes : Resume(j, AfterAnalyzeChangelog(task[j], env, out), Seen(out))

GenerateImagePromptReturns(j) ==
    /\ At(j, "generateImagePrompt")
    /\ \E out \in PromptOutcomes :
          Resume(j, AfterGenerateImagePrompt(task[j], env, out), Seen(out))

GenerateImageReturns(j) ==
    /\ At(j, "generateImage")
    /\ \E out \in ImageOutcomes : Resume(j, AfterGenerateImage(task[j], env, out), Seen(out))

\* cap: how many times the provider answers "not ready yet" to one stage
PollFetchReturns(j, cap) ==
    /\ At(j, "pollFetch")
    /\ \E out \in PollResponses :
          /\ ImagePending(out) => task[j].attempts < cap
          /\ Resume(j, AfterPollFetch(task[j], env, out), PollSeen(out))

PollSleepEnds(j) ==
    /\ At(j, "pollSleep")
    /\ Resume(j, AfterPollSleep(task[j]), "waited")

DownloadImageReturns(j) ==
    /\ At(j, "downloadImage")
    /\ \E out \in DownloadOutcomes : Resume(j, AfterDownloadImage(task[j], out), Seen(out))

GenerateVideosReturns(j) ==
    /\ At(j, "generateVideos")
    /\ \E out \in StartVideoOutcomes : Resume(j, AfterGenerateVideos(task[j], out), Seen(out))

GetVideosOperationReturns(j, cap) ==
    /\ At(j, "getVideosOperation")
    /\ \E out \in OperationResponses :
          /\ VideoPending(out) => task[j].attempts < cap
          /\ Resume(j, AfterGetVideosOperation(task[j], env, out), OperationSeen(out))

VideoSleepEnds(j) ==
    /\ At(j, "videoSleep")
    /\ Resume(j, AfterVideoSleep(task[j]), "waited")

\* lib/openapi.ts:5-16, the defaultHook of the routes registered with
\* app.openapi: a request that fails the route's schema is answered 422 and
\* the handler does not run.  The id stands for the parameter as sent.
ValidationFailed(op, jobId) ==
    [op |-> op, id |-> jobId, code |-> 422,
     body |-> [ok |-> FALSE, error |-> "Validation failed"]]

\* Faulty variant: the route takes any text as jobId.
AnyJobId(jobId) == TRUE

\* JobIdParamSchema, schemas/video.ts:19-27: jobId is a UUID
ValidJobId(jobId) == jobId # NotUuid

\* Faulty variant: the record is sent as the registry holds it.
JobStatusResponseRaw(jobId) ==
    IF ~ValidJobId(jobId) THEN ValidationFailed("getJob", jobId)
    ELSE IF ~Known(jobId)
    THEN [op |-> "getJob", id |-> jobId, code |-> 404,
          body |-> [ok |-> FALSE, error |-> "Job not found"]]
    ELSE [op |-> "getJob", id |-> jobId, code |-> 200, body |-> jobs[jobId]]

\* GET /v1/api/jobs/{jobId}, video.ts:183-204 (route: video.ts:111-137)
JobStatusResponse(jobId) ==
    IF ~ValidJobId(jobId) THEN ValidationFailed("getJob", jobId)
    ELSE IF ~Known(jobId)
    THEN [op |-> "getJob", id |-> jobId, code |-> 404,
          body |-> [ok |-> FALSE, error |-> "Job not found"]]
    ELSE LET job == jobs[jobId]
             responseJob ==
                 IF job.status = "completed" /\ Has(job, "videoUrl")
                    /\ job.videoUrl # <<>>
                 THEN SetField(job, "videoUrl", ProxyUrl(jobId))
                 ELSE job
         IN  [op |-> "getJob", id |-> jobId, code |-> 200, body |-> responseJob]

\* Faulty variant: responseJob is the stored object itself (const responseJob
\* = job), the rewritten videoUrl lands in the registry.
JobAliased(job, responseJob) == responseJob

\* video.ts:197-201: the record the registry holds when the handler has built
\* its answer.  responseJob is a copy ({ ...job }), so the assignment to
\* responseJob.videoUrl does not reach job.
JobAfterStatusResponse(job, responseJob) == job

GetJob(jobId) ==
    /\ resp' = JobStatusResponse(jobId)
    /\ jobs' = IF Known(jobId)
               THEN [jobs EXCEPT ![jobId] = JobAfterStatusResponse(@, resp'.body)]
               ELSE jobs
    /\ emitted' = {}
    /\ UNCHANGED <<env, hist, task, calls, rets, inflight, remote, proxy>>

\* Faulty variant: the handler has no domain check.
VideoProxyUnchecked(jobId) ==
    IF ~Known(jobId) \/ ~Has(jobs[jobId], "videoUrl") \/ jobs[jobId].videoUrl = <<>>
    THEN [answer |-> TRUE, code |-> 404, log |-> {},
          body |-> [ok |-> FALSE, error |-> "Video not found"]]
    ELSE IF env.GEMINI_API_KEY = ""
    THEN [answer |-> TRUE, code |-> 500, log |-> {},
          body |-> [ok |-> FALSE, error |-> "GEMINI_API_KEY is not set"]]
    ELSE [answer |-> FALSE,
          fetch |-> UrlWithKey(jobs[jobId].videoUrl, env.GEMINI_API_KEY)]

\* Faulty variant: the domain check comes before the look for a reference, and
\* a record without reference fails it.
VideoProxyDomainFirst(jobId) ==
    IF ~Known(jobId)
    THEN [answer |-> TRUE, code |-> 404, log |-> {},
          body |-> [ok |-> FALSE, error |-> "Video not found"]]
    ELSE IF ~Has(jobs[jobId], "videoUrl") \/ ~isAllowedDomain(jobs[jobId].videoUrl)
    THEN [answer |-> TRUE, code |-> 403,
          log |-> {[level |-> "error", about |-> "security"]},
          body |-> [ok |-> FALSE, error |-> "Invalid video URL domain"]]
    ELSE [answer |-> FALSE,
          fetch |-> UrlWithKey(jobs[jobId].videoUrl, env.GEMINI_API_KEY)]

\* GET /v1/api/videos/:jobId, video.ts:207-246: what the handler does before
\* it awaits the upstream fetch.  [answer] is a response sent at once,
\* [fetch] the URL requested upstream.
VideoProxy(jobId) ==
    IF ~Known(jobId) \/ ~Has(jobs[jobId], "videoUrl") \/ jobs[jobId].videoUrl = <<>>
    THEN [answer |-> TRUE, code |-> 404, log |-> {},
          body |-> [ok |-> FALSE, error |-> "Video not found"]]
    ELSE LET apiKey == env.GEMINI_API_KEY
             videoUrl == jobs[jobId].videoUrl
         IN  IF apiKey = ""
             THEN [answer |-> TRUE, code |-> 500, log |-> {},
                   body |-> [ok |-> FALSE, error |-> "GEMINI_API_KEY is not set"]]
             ELSE IF ~isAllowedDomain(videoUrl)
             THEN [answer |-> TRUE, code |-> 403,
                   log |-> {[level |-> "error", about |-> "security"]},
                   body |-> [ok |-> FALSE, error |-> "Invalid video URL domain"]]
             ELSE [answer |-> FALSE, fetch |-> UrlWithKey(videoUrl, apiKey)]

GetResult(jobId) ==
    LET r == VideoProxy(jobId)
    IN  /\ IF r.answer
           THEN /\ resp' = [op |-> "getResult", id |-> jobId, code |-> r.code,
                            body |-> r.body]
                /\ emitted' = r.log
                /\ proxy' = proxy
           ELSE /\ Len(proxy) < MaxProxy
                /\ proxy' = Append(proxy, [id |-> jobId, url |-> r.fetch])
                /\ resp' = NoResp
                /\ emitted' = {}
        /\ UNCHANGED <<env, jobs, hist, task, calls, rets, inflight, remote>>

\* Answers of the upstream host to fetch(urlWithKey)
UpstreamOutcomes == {Ok("mp4"), Fail("Failed to fetch video: Forbidden"),
                     Fail("fetch failed")}

\* video.ts:246-267; fetched is the URL the handler requested upstream (it is
\* not part of what the client receives).
VideoProxyAnswer(req, out) ==
    IF out.ok
    THEN [op |-> "getResult", id |-> req.id, code |-> 200, fetched |-> req.url,
          body |-> [video |-> out.value]]
    ELSE [op |-> "getResult", id |-> req.id, code |-> 500, fetched |-> req.url,
          body |-> [ok |-> FALSE, error |-> ErrorMessage(out.error)]]

GetResultFetched(i) ==
    /\ i \in 1..Len(proxy)
    /\ \E out \in UpstreamOutcomes : resp' = VideoProxyAnswer(proxy[i], out)
    /\ proxy' = SubSeq(proxy, 1, i - 1) \o SubSeq(proxy, i + 1, Len(proxy))
    /\ emitted' = {}
    /\ UNCHANGED <<env, jobs, hist, task, calls, rets, inflight, remote>>

Next ==
    \/ \E u \in ChangelogUrls, o \in DefaultOptions : CreateJob(u, o, MaxJobs)
    \/ \E j \in JobIds : FetchChangelogReturns(j, TwoReleases)
    \/ \E j \in JobIds : AnalyzeChangelogReturns(j)
    \/ \E j \in JobIds : GenerateImagePromptReturns(j)
    \/ \E j \in JobIds : GenerateImageReturns(j)
    \/ \E j \in JobIds : PollFetchReturns(j, MaxPending)
    \/ \E j \in JobIds : PollSleepEnds(j)
    \/ \E j \in JobIds : DownloadImageReturns(j)
    \/ \E j \in JobIds : GenerateVideosReturns(j)
    \/ \E j \in JobIds : GetVideosOperationReturns(j, MaxPending)
    \/ \E j \in JobIds : VideoSleepEnds(j)
    \/ \E id \in AskIds : GetJob(id)
    \/ \E id \in AskIds : GetResult(id)
    \/ \E i \in 1..MaxProxy : GetResultFetched(i)

Spec == Init /\ [][Next]_vars

\* One job, followed through every input and through complete polling loops:
\* the providers may answer "not ready yet" as long as the code keeps asking.
NextDeep ==
    \/ \E u \in ChangelogUrls, o \in Options : CreateJob(u, o, 1)
    \/ \E j \in JobIds : FetchChangelogReturns(j, Changelogs)
    \/ \E j \in JobIds : AnalyzeChangelogReturns(j)
    \/ \E j \in JobIds : GenerateImagePromptReturns(j)
    \/ \E j \in JobIds : GenerateImageReturns(j)
    \/ \E j \in JobIds : PollFetchReturns(j, maxAttempts)
    \/ \E j \in JobIds : PollSleepEnds(j)
    \/ \E j \in JobIds : DownloadImageReturns(j)
    \/ \E j \in JobIds : GenerateVideosReturns(j)
    \/ \E j \in JobIds : GetVideosOperationReturns(j, maxAttempts)
    \/ \E j \in JobIds : VideoSleepEnds(j)
    \/ \E id \in AskIds : GetJob(id)
    \/ \E id \in AskIds : GetResult(id)
    \/ \E i \in 1..MaxProxy : GetResultFetched(i)

SpecDeep == Init /\ [][NextDeep]_vars

\* The resumption of job j's pipeline under NextDeep, whatever it awaits.
ResumeDeep(j) ==
    \/ FetchChangelogReturns(j, Changelogs)
    \/ AnalyzeChangelogReturns(j)
    \/ GenerateImagePromptReturns(j)
    \/ GenerateImageReturns(j)
    \/ PollFetchReturns(j, maxAttempts)
    \/ PollSleepEnds(j)
    \/ DownloadImageReturns(j)
    \/ GenerateVideosReturns(j)
    \/ GetVideosOperationReturns(j, maxAttempts)
    \/ VideoSleepEnds(j)

\* A status check of the image answered with out.
PollFetchAnswers(j, out) ==
    /\ At(j, "pollFetch")
    /\ Resume(j, AfterPollFetch(task[j], env, out), PollSeen(out))

\* The answer "completed" without raw result URL (higgsfield.ts:111).
CompletedWithoutUrl == [ok |-> TRUE, hasJob |-> TRUE, status |-> "completed", url |-> ""]

\* One job whose image provider answers every status check with "completed"
\* and no URL; the stages before the poll succeed or fail as under SpecDeep.
NextStuck ==
    \/ \E u \in ChangelogUrls, o \in Options : CreateJob(u, o, 1)
    \/ \E j \in JobIds : FetchChangelogReturns(j, Changelogs)
    \/ \E j \in JobIds : AnalyzeChangelogReturns(j)
    \/ \E j \in JobIds : GenerateImagePromptReturns(j)
    \/ \E j \in JobIds : GenerateImageReturns(j)
    \/ \E j \in JobIds : PollFetchAnswers(j, CompletedWithoutUrl)
    \/ \E j \in JobIds : PollSleepEnds(j)
    \/ \E id \in AskIds : GetJob(id)
    \/ \E id \in AskIds : GetResult(id)

SpecStuck == Init /\ [][NextStuck]_vars

\* SpecDeep with the assumption that whatever a pipeline awaits (fetch, SDK
\* call, setTimeout) settles and the event loop then resumes the pipeline.
SpecLive == SpecDeep /\ \A j \in JobIds : WF_vars(ResumeDeep(j))

\* ------------------------------------------------------------------ claims
Statuses(h) == [i \in 1..Len(h) |-> h[i].status]
Terminal(job) == job.status \in {"completed", "failed"}
Last(s) == s[Len(s)]

\* C1: on structurally valid input, the job in the response of createJob
\* always has status queued.
C1_CreateJobAnswersQueued ==
    (resp.op = "createJob" /\ resp.code = 200) => resp.body.status = "queued"

\* C2: a getJob that is the first operation after createJob has returned, before
\* any provider response has arrived, reports status queued.
C2_FirstGetJobQueued ==
    [][(/\ resp.op = "createJob"
        /\ resp'.op = "getJob"
        /\ resp'.id = resp.id) => resp'.body.status = "queued"]_vars

\* C3: the status stored for a job changes only along queued -> processing ->
\* completed or queued -> processing -> failed: the first record stored is queued,
\* every later change of status follows one of these edges (never backward, never
\* from queued to a terminal status, never out of a terminal status), and the
\* registry holds the last record stored.
StatusEdges ==
    {<<"queued", "processing">>, <<"processing", "completed">>,
     <<"processing", "failed">>}

C3_StatusForwardOnly ==
    \A j \in DOMAIN jobs :
        LET h == hist[j]
        IN  /\ h[1].status = "queued"
            /\ jobs[j] = Last(h)
            /\ \A i \in 1..(Len(h) - 1) :
                  h[i].status # h[i + 1].status
                      => <<h[i].status, h[i + 1].status>> \in StatusEdges

C3_Witness ==
    \E j, k \in DOMAIN jobs :
        /\ Statuses(hist[j]) = <<"queued", "processing", "completed">>
        /\ Statuses(hist[k]) = <<"queued", "processing", "failed">>

\* C4: in every state a request can observe (every state between two segments,
\* whatever the other pipelines are suspended in), each job record is of exactly
\* one of three shapes: completed with videoUrl and without error; failed with
\* error and without videoUrl; queued or processing with neither.
WellFormed(job) ==
    \/ /\ job.status = "completed"
       /\ Has(job, "videoUrl") /\ ~Has(job, "error")
    \/ /\ job.status = "failed"
       /\ Has(job, "error") /\ ~Has(job, "videoUrl")
    \/ /\ job.status \in {"queued", "processing"}
       /\ ~Has(job, "videoUrl") /\ ~Has(job, "error")

C4_RecordShape == \A j \in DOMAIN jobs : WellFormed(jobs[j])

C4_Witness ==
    /\ resp.op = "getJob" /\ resp.code = 200
    /\ jobs[resp.id].status = "completed"
    /\ \E k \in DOMAIN jobs : jobs[k].status = "processing"

\* C5: videoUrl and error are each written at most once and the terminal record
\* is never stored again or changed: of the records stored for a job only the
\* last can be terminal or carry videoUrl or error, and it is the record the
\* registry holds (so every getJob after the terminal transition reads it).
C5_TerminalWrittenOnce ==
    \A j \in DOMAIN jobs :
        LET h == hist[j]
        IN  /\ jobs[j] = Last(h)
            /\ \A i \in 1..(Len(h) - 1) :
                  /\ ~Terminal(h[i])
                  /\ ~Has(h[i], "videoUrl")
                  /\ ~Has(h[i], "error")

C5_Witness ==
    /\ resp.op = "getJob" /\ resp.code = 200
    /\ Terminal(jobs[resp.id])
    /\ Has(jobs[resp.id], "error")
    /\ \E k \in DOMAIN jobs : Has(jobs[k], "videoUrl")

\* The pipeline functions in the order of video.ts:292-310.
AllSteps ==
    <<"fetchChangelog", "analyzeChangelog", "generateImagePrompt",
      "generateImage", "pollHiggsfieldJob", "generateVideo">>

Fns(log) == [i \in 1..Len(log) |-> log[i].fn]

\* The messages of the errors each pipeline function throws (changelog.ts:13,
\* higgsfield.ts:33, 56, 62, 76, 93, 100, 104, 108, 120, 137, 161, 174, 198, 211,
\* 228, 285, 293, and the rejections of fetch and of the provider SDKs).
StepErrors(fn) ==
    CASE fn = "fetchChangelog" ->
            {"Failed to fetch changelog: Not Found", "fetch failed"}
      [] fn = "analyzeChangelog" ->
            {"GEMINI_API_KEY is not set", "Gemini: request rejected by policy",
             "No text generated from Gemini"}
      [] fn = "generateImagePrompt" ->
            {"GEMINI_API_KEY is not set", "Gemini: service unavailable",
             "No image prompt generated from Gemini"}
      [] fn = "generateImage" ->
            {"HIGGSFIELD_API_KEY or HIGGSFIELD_SECRET is not set",
             "Higgsfield API error: bad request", "fetch failed",
             "No job ID returned from Higgsfield"}
      [] fn = "pollHiggsfieldJob" ->
            {"HIGGSFIELD_API_KEY or HIGGSFIELD_SECRET is not set",
             "Higgsfield polling error: unavailable", "No job found in response",
             "Image generation failed",
             "Image generation rejected: NSFW content detected",
             "Image generation timeout"}
      [] fn = "generateVideo" ->
            {"GEMINI_API_KEY is not set", "Failed to download image: Not Found",
             "fetch failed", "Veo: quota exceeded", "Veo: operation lookup failed",
             "Operation completed but no video URI found",
             "Video generation timeout"}

\* C6: when a pipeline step fails (the pipeline has ended and the last function
\* it called has not returned a value), the job has gone queued -> processing ->
\* failed, its error is a message of that very step, and no later step was
\* called: the failed call is the last call and nothing is in flight.  A job is
\* failed only in this way.
C6_FailureStopsPipeline ==
    \A j \in DOMAIN jobs :
        LET c == calls[j]
            r == rets[j]
            stepFailed == task[j].pc = "done" /\ Len(r) < Len(c)
        IN  /\ stepFailed =>
                  /\ Statuses(hist[j]) = <<"queued", "processing", "failed">>
                  /\ Has(jobs[j], "error")
                  /\ jobs[j].error \in StepErrors(Last(c).fn)
                  /\ Len(r) = Len(c) - 1
                  /\ Fns(r) = SubSeq(AllSteps, 1, Len(r))
                  /\ Fns(c) = SubSeq(AllSteps, 1, Len(c))
                  /\ inflight[j] = {}
            /\ jobs[j].status = "failed" => stepFailed

C6_Witness ==
    \E j \in DOMAIN jobs :
        /\ jobs[j].status = "failed"
        /\ jobs[j].error = "Image generation timeout"
        /\ Last(calls[j]).fn = "pollHiggsfieldJob"
        /\ task[j].attempts = maxAttempts - 1

\* out with one key parameter (separator, "key=", the credential) taken out
KeyRemoved(out, stored) ==
    \E i \in 1..(Len(out) - 2) :
        /\ out[i] \in {"?", "&"}
        /\ out[i + 1] = "key="
        /\ out[i + 2] = KEY
        /\ stored = SubSeq(out, 1, i - 1) \o SubSeq(out, i + 3, Len(out))

ExpectedArgs(k, r, opts, changelogUrl) ==
    CASE k = 1 -> <<changelogUrl>>
      [] k = 2 -> <<extractLatestRelease(r[1].value)>>
      [] k = 3 -> <<r[2].value>>
      [] k = 4 -> <<r[3].value>>
      [] k = 5 -> <<r[4].value>>
      [] k = 6 -> <<r[5].value, r[2].value, opts[1], opts[2]>>

\* C8: within one job the pipeline functions are called in the order fetch,
\* summarize, derive prompt, start image, poll image, generate video; a function
\* is called only when all earlier ones have returned a value, with the value of
\* its predecessor as argument (for summarize, the latest release extracted from
\* the fetched changelog); and never are two of them in flight together.
C8_StepsInOrder ==
    \A j \in DOMAIN jobs :
        LET c == calls[j]
            r == rets[j]
        IN  /\ Fns(c) = SubSeq(AllSteps, 1, Len(c))
            /\ Fns(r) = SubSeq(AllSteps, 1, Len(r))
            /\ Len(c) - 1 <= Len(r) /\ Len(r) <= Len(c)
            /\ \A k \in 1..Len(c) :
                  c[k].args = ExpectedArgs(k, r, task[j].opts, jobs[j].changelogUrl)
            /\ Cardinality(inflight[j]) <= 1
            /\ inflight[j] \subseteq {Last(c).fn}

C8_Witness ==
    \E j \in DOMAIN jobs :
        /\ Fns(calls[j]) = AllSteps
        /\ inflight[j] = {"generateVideo"}
        /\ task[j].pc = "videoSleep"
        /\ task[j].opts = <<"9:16", "720p">>

NoKey(url) == KEY \notin Range(url)

\* C9: the credential is in no videoUrl ever stored for a job and in no body of
\* a response of createJob, getJob or getResult, whatever URI of VideoUris the
\* provider returned.  Violated: replace() at video.ts:313 removes the first key
\* parameter only, so a URI that carries the parameter twice is stored with the
\* credential in it.
C9_CredentialNeverExposed ==
    /\ \A j \in DOMAIN jobs :
          \A i \in 1..Len(hist[j]) :
              Has(hist[j][i], "videoUrl") => NoKey(hist[j][i].videoUrl)
    /\ resp.op # "none" =>
          /\ Has(resp.body, "videoUrl") => NoKey(resp.body.videoUrl)
          /\ Has(resp.body, "error") => resp.body.error # KEY
          /\ Has(resp.body, "video") => resp.body.video # KEY

\* The hostname of url is an allowlisted domain or a subdomain of one.
OnAllowlist(url) ==
    LET p == ParseUrl(url)
        h == p.hostname
    IN  /\ p.ok
        /\ \E d \in ALLOWED_VIDEO_DOMAINS : \E n \in 0..Len(h) :
              /\ SubSeq(h, n + 1, Len(h)) = d
              /\ n = 0 \/ h[n] = "."

\* C10: every response of getResult for a job whose stored reference has a host
\* that is not on the allowlist is 403, under every environment of Envs.
C10_ForbiddenOffAllowlist ==
    (/\ resp.op = "getResult"
     /\ Known(resp.id)
     /\ Has(jobs[resp.id], "videoUrl")
     /\ ~OnAllowlist(jobs[resp.id].videoUrl)) => resp.code = 403

C10_Witness ==
    /\ resp.op = "getResult" /\ resp.code = 403
    /\ ParseUrl(jobs[resp.id].videoUrl).ok
    /\ Includes(jobs[resp.id].videoUrl, "storage")

\* References the allowlist must reject: the domain in the path, as a prefix of
\* the hostname, as an unseparated suffix of it, and a text that is no URL.
RejectedReferences ==
    { <<SCHEME, "evil", ".", "com", "/">> \o STORAGE_HOST \o <<"/", "x">>,
      <<SCHEME, "evil", "-">> \o STORAGE_HOST \o <<".", "attacker", ".", "com">> \o F,
      <<SCHEME, "evil">> \o STORAGE_HOST \o F,
      STORAGE_HOST \o F }

\* References the allowlist must accept: an allowlisted host, a subdomain of one.
AcceptedReferences ==
    { <<SCHEME>> \o GEN_HOST \o F,
      <<SCHEME>> \o GEN_HOST \o F \o <<"?", "alt=", "media">>,
      <<SCHEME, "sub", ".">> \o STORAGE_HOST \o F }

\* C11: isAllowedDomain accepts a stored reference exactly when its hostname is
\* an allowlisted domain or ends with "." and an allowlisted domain; the
\* references of RejectedReferences are rejected and those of
\* AcceptedReferences accepted; and getResult answers 403 exactly for the
\* rejected ones, requesting upstream only accepted ones.
C11_AllowlistExact ==
    /\ \A j \in DOMAIN jobs :
          Has(jobs[j], "videoUrl") =>
              LET url == jobs[j].videoUrl
              IN  /\ isAllowedDomain(url) <=> OnAllowlist(url)
                  /\ url \in RejectedReferences => ~isAllowedDomain(url)
                  /\ url \in AcceptedReferences => isAllowedDomain(url)
    /\ (resp.op = "getResult" /\ Known(resp.id) /\ Has(jobs[resp.id], "videoUrl")) =>
          (resp.code = 403 <=> ~OnAllowlist(jobs[resp.id].videoUrl))
    /\ \A i \in 1..Len(proxy) : OnAllowlist(jobs[proxy[i].id].videoUrl)

C11_Witness ==
    /\ resp.op = "getResult" /\ resp.code = 403
    /\ jobs[resp.id].videoUrl =
          <<SCHEME, "evil", "-">> \o STORAGE_HOST \o <<".", "attacker", ".", "com">> \o F

\* C12: a job-status response (200 of createJob or getJob, whatever the state
\* of the job) has no videoUrl or has the gateway form /v1/api/videos/{jobId},
\* which is not the upstream URL the registry holds; a completed job is
\* reported with the gateway form.
C12_GatewayUrlOnly ==
    (resp.op \in {"createJob", "getJob"} /\ resp.code = 200) =>
        /\ Has(resp.body, "videoUrl") =>
              /\ resp.body.videoUrl = <<"/v1/api/videos/", ToString(resp.id)>>
              /\ resp.body.videoUrl # jobs[resp.id].videoUrl
              /\ \A i \in 1..Len(hist[resp.id]) :
                    Has(hist[resp.id][i], "videoUrl") =>
                        resp.body.videoUrl # hist[resp.id][i].videoUrl
        /\ resp.body.status = "completed" => Has(resp.body, "videoUrl")

C12_Witness ==
    /\ resp.op = "getJob" /\ resp.code = 200
    /\ resp.body.status = "completed"
    /\ resp.body.videoUrl = <<"/v1/api/videos/", "1">>
    /\ jobs[resp.id].videoUrl = <<SCHEME>> \o GEN_HOST \o F \o <<"?", "alt=", "media">>

\* C13: getResult answers 404 "Video not found" for an id the registry does not
\* know and for every job without stored reference, and only for those; so a
\* queued, processing or failed job yields 404, and a request is sent upstream
\* or answered 200 only for a completed job.
C13_NotFoundWithoutReference ==
    /\ resp.op = "getResult" =>
          LET absent == ~Known(resp.id) \/ ~Has(jobs[resp.id], "videoUrl")
          IN  /\ absent <=> resp.code = 404
              /\ resp.code = 404 => resp.body = [ok |-> FALSE, error |-> "Video not found"]
              /\ (Known(resp.id) /\ jobs[resp.id].status # "completed") => resp.code = 404
              /\ resp.code = 200 => Known(resp.id) /\ jobs[resp.id].status = "completed"
    /\ \A i \in 1..Len(proxy) :
          Known(proxy[i].id) /\ jobs[proxy[i].id].status = "completed"

C13_Witness ==
    /\ resp.op = "getResult" /\ resp.code = 404
    /\ Known(resp.id)
    /\ jobs[resp.id].status = "failed"

NotFoundBody == [ok |-> FALSE, error |-> "Job not found"]

C15_ReadsArePure ==
    [][(resp'.op \in {"getJob", "getResult"} \/ proxy' # proxy) =>
           /\ jobs' = jobs
           /\ \A j \in DOMAIN jobs : jobs'[j] = hist'[j][Len(hist'[j])]]_vars

C15_Witness ==
    /\ resp.op = "getJob" /\ resp.code = 200
    /\ Has(resp.body, "videoUrl")
    /\ jobs[resp.id].videoUrl # resp.body.videoUrl
    /\ jobs[resp.id].videoUrl = <<SCHEME, "sub", ".">> \o STORAGE_HOST \o F
    /\ isAllowedDomain(jobs[resp.id].videoUrl)

TimeoutErrors == {"Image generation timeout", "Video generation timeout"}

\* C16: in each polling stage of a job (image, video) the number of status
\* checks and the number of interval waits never exceed maxAttempts, a wait
\* follows a check that found the artifact not ready; when the maxAttempts-th
\* wait is over the stage ends at once with its timeout error and the job is
\* failed; and a timeout error is recorded only then.
C16_PollingBounded ==
    \A j \in DOMAIN jobs :
        LET r == remote[j]
            exhausted == r.waits = maxAttempts
            timedOut == /\ Has(jobs[j], "error")
                        /\ jobs[j].error \in TimeoutErrors
        IN  /\ r.checks <= maxAttempts
            /\ r.waits <= r.checks
            /\ r.checks <= r.waits + 1
            /\ exhausted <=> timedOut
            /\ exhausted =>
                  /\ task[j].pc = "done"
                  /\ r.checks = maxAttempts
                  /\ r.seen = "waited"
                  /\ jobs[j].status = "failed"
                  /\ inflight[j] = {}

C16_Witness ==
    \E j \in DOMAIN jobs :
        /\ jobs[j].status = "failed"
        /\ jobs[j].error = "Video generation timeout"
        /\ remote[j].checks = maxAttempts
        /\ remote[j].waits = maxAttempts

ProviderFailureErrors ==
    {"Image generation failed", "Image generation rejected: NSFW content detected",
     "Operation completed but no video URI found"}

PollingStages == {"pollHiggsfieldJob", "generateVideo"}

\* C17: a polling stage ends in one of three ways that can be told apart: with
\* the artifact URL as its value; with a provider-failure error when a status
\* check reported failure; with a timeout error when the attempts are used up.
\* No error is both, and the error recorded on the failed job is of the kind of
\* what happened.
C17_OutcomesDistinct ==
    /\ ProviderFailureErrors \cap TimeoutErrors = {}
    /\ \A j \in DOMAIN jobs :
          LET r == remote[j]
              polling == /\ task[j].pc = "done"
                         /\ Len(rets[j]) < Len(calls[j])
                         /\ calls[j][Len(calls[j])].fn \in PollingStages
              recorded == IF Has(jobs[j], "error") THEN jobs[j].error ELSE ""
          IN  /\ (polling /\ r.seen = "failed") =>
                    jobs[j].status = "failed" /\ recorded \in ProviderFailureErrors
              /\ (polling /\ r.seen = "waited") =>
                    jobs[j].status = "failed" /\ recorded \in TimeoutErrors
              /\ recorded \in ProviderFailureErrors => polling /\ r.seen = "failed"
              /\ recorded \in TimeoutErrors => polling /\ r.seen = "waited"
              /\ \A k \in 1..Len(rets[j]) :
                    /\ rets[j][k].fn = "pollHiggsfieldJob" => rets[j][k].value \in ImageUrls
                    /\ rets[j][k].fn = "generateVideo" =>
                          \E u \in VideoUris :
                              rets[j][k].value = AddKeyIfMissing(u, env.GEMINI_API_KEY)

C17_Witness ==
    \E j \in DOMAIN jobs :
        /\ jobs[j].status = "failed"
        /\ jobs[j].error = "Image generation rejected: NSFW content detected"
        /\ remote[j].seen = "failed"
        /\ remote[j].waits > 0

\* The remote operations a job starts, in the order of the pipeline.
InitiatingOrder ==
    <<"fetchChangelog", "analyzeChangelog", "generateImagePrompt", "generateImage",
      "downloadImage", "generateVideos">>

\* C18: a job starts each of its remote operations at most once, in pipeline
\* order, and each pipeline function is called at most once; an operation or a
\* status check that fails (rejected, non-2xx, provider failure) is the last
\* thing the job does: the pipeline has ended, the job is failed, nothing is in
\* flight, and no further check or wait was counted.
C18_NoRetry ==
    \A j \in DOMAIN jobs :
        LET r == remote[j]
            c == calls[j]
        IN  /\ r.ops = SubSeq(InitiatingOrder, 1, Len(r.ops))
            /\ \A a, b \in 1..Len(c) : c[a].fn = c[b].fn => a = b
            /\ r.seen \in {"error", "failed"} =>
                  /\ task[j].pc = "done"
                  /\ jobs[j].status = "failed"
                  /\ inflight[j] = {}
                  /\ Len(rets[j]) = Len(c) - 1

C18_Witness ==
    \E j \in DOMAIN jobs :
        /\ jobs[j].status = "failed"
        /\ jobs[j].error = "Higgsfield polling error: unavailable"
        /\ remote[j].seen = "error"
        /\ remote[j].checks = 2
        /\ remote[j].waits = 1

\* What the program holds for job j: its record, the records stored for it, and
\* the position, calls and remote operations of its pipeline.
Held(j) == <<jobs[j], hist[j], task[j], calls[j], rets[j], inflight[j], remote[j]>>

\* C19: no step changes what is held for two jobs, and a step that creates a
\* job changes nothing held for the jobs there are; so a step of one job's
\* pipeline (which changes what is held for that job) and every createJob
\* leave the records of all other jobs unchanged.
C19_JobsIsolated ==
    [][/\ \A j, k \in DOMAIN jobs :
              j # k => (Held(j)' = Held(j) \/ Held(k)' = Held(k))
       /\ DOMAIN jobs' # DOMAIN jobs =>
              \A j \in DOMAIN jobs : Held(j)' = Held(j)
       /\ \A j \in DOMAIN jobs :
              jobs'[j] # jobs[j] => task'[j] # task[j]]_vars

C19_Witness ==
    /\ DOMAIN jobs = {1, 2}
    /\ jobs[1].status = "completed"
    /\ jobs[2].status = "failed"
    /\ Len(rets[2]) = 0
    /\ Len(rets[1]) = 6

\* The resumption of job j's pipeline, whatever it is suspended in.
PipelineStep(j) ==
    \/ FetchChangelogReturns(j, TwoReleases)
    \/ AnalyzeChangelogReturns(j)
    \/ GenerateImagePromptReturns(j)
    \/ GenerateImageReturns(j)
    \/ PollFetchReturns(j, MaxPending)
    \/ PollSleepEnds(j)
    \/ DownloadImageReturns(j)
    \/ GenerateVideosReturns(j)
    \/ GetVideosOperationReturns(j, MaxPending)
    \/ VideoSleepEnds(j)

Suspended(j) == Known(j) /\ task[j].pc # "done"

\* C20: while a job is suspended in a remote call or a polling wait, getJob
\* and getResult can be answered for every id, a job can be created, and the
\* pipeline of every other unfinished job can resume (up to the numbers of
\* jobs and of open upstream requests the model follows).
C20_NonBlocking ==
    (\E j \in DOMAIN jobs : Suspended(j)) =>
        /\ \A id \in AskIds : ENABLED GetJob(id)
        /\ \A id \in AskIds :
              (Len(proxy) < MaxProxy \/ VideoProxy(id).answer) => ENABLED GetResult(id)
        /\ Cardinality(DOMAIN jobs) < MaxJobs =>
              \A u \in ChangelogUrls, o \in DefaultOptions : ENABLED CreateJob(u, o, MaxJobs)
        /\ \A k \in DOMAIN jobs : Suspended(k) => ENABLED PipelineStep(k)

\* ... and a job created later ends before a job created earlier.
C20_Witness ==
    /\ DOMAIN jobs = {1, 2}
    /\ jobs[1].createdAt < jobs[2].createdAt
    /\ jobs[2].status = "completed"
    /\ jobs[1].status = "processing"
    /\ task[1].pc = "pollSleep"

\* The levels at which the failure of a pipeline stage is logged (video.ts:322).
FailureLevels ==
    {l.level : l \in Logged(Throw(Err("fetch failed"), <<>>, <<>>, {}))}

\* C21: every 403 of getResult is logged as a security rejection, at a level
\* that is not a level at which the failure of a pipeline stage is logged.
\* Violated: both are written with logger.error (video.ts:230 and :322).
C21_SecurityRejectionDistinctLevel ==
    (resp.op = "getResult" /\ resp.code = 403) =>
        \E l \in emitted : l.about = "security" /\ l.level \notin FailureLevels

\* The part of C21 that holds: every 403 of getResult is logged, and only a
\* 403 of getResult writes a security line.
SecurityRejectionLogged ==
    (resp.op = "getResult" /\ resp.code = 403)
        <=> (\E l \in emitted : l.about = "security")

\* The positions of the version headers of a changelog, and of the n-th.
HeaderPositions(changelog) ==
    {i \in 1..Len(changelog) : changelog[i] \in VersionHeaders}

NthHeader(changelog, n) ==
    CHOOSE i \in HeaderPositions(changelog) :
        Cardinality({h \in HeaderPositions(changelog) : h <= i}) = n

\* The lines from the first version header up to, not including, the second.
FirstSection(changelog) ==
    SubSeq(changelog, NthHeader(changelog, 1), NthHeader(changelog, 2) - 1)

TwoHeaders(changelog) == Cardinality(HeaderPositions(changelog)) >= 2

\* C22 as stated: for a fetched changelog with at least two version headers,
\* analyzeChangelog is called with exactly the lines from the first header up
\* to, not including, the second.  Violated: trim() at changelog.ts:52 drops
\* the blank lines that end the section.
C22_ExactFirstSection ==
    \A j \in DOMAIN jobs :
        (Len(rets[j]) >= 1 /\ Len(calls[j]) >= 2 /\ TwoHeaders(rets[j][1].value)) =>
            calls[j][2].args = <<FirstSection(rets[j][1].value)>>

\* C22 amended: ... analyzeChangelog is called with the lines from the first
\* header up to, not including, the second, without the blank lines at the end
\* of that section: the text passed begins the section, its last line is not
\* blank, and the lines of the section it leaves out are all blank.
C22_FirstSectionTrimmed ==
    \A j \in DOMAIN jobs :
        (Len(rets[j]) >= 1 /\ Len(calls[j]) >= 2 /\ TwoHeaders(rets[j][1].value)) =>
            LET section == FirstSection(rets[j][1].value)
                passed == calls[j][2].args[1]
            IN  /\ Len(passed) >= 1 /\ Len(passed) <= Len(section)
                /\ passed = SubSeq(section, 1, Len(passed))
                /\ passed[Len(passed)] \notin {"", " "}
                /\ \A i \in (Len(passed) + 1)..Len(section) : section[i] \in {"", " "}
                /\ passed = extractLatestRelease(rets[j][1].value)

C22_Witness ==
    \E j \in DOMAIN jobs :
        /\ Len(calls[j]) >= 2
        /\ rets[j][1].value =
              <<"# v2.0.0", "- fix", "## [1.1.0]", "- fix", "", "## [1.0.0]">>
        /\ calls[j][2].args = << <<"# v2.0.0", "- fix">> >>

\* C23: if whatever a pipeline awaits settles and the pipeline is then resumed,
\* every job created is completed or failed in the end; none stays processing
\* (or queued) for ever, also when the providers answer "not ready" to every
\* status check.
C23_EveryJobEnds ==
    \A j \in JobIds : Known(j) ~> (Known(j) /\ Terminal(jobs[j]))

C23_Witness ==
    \E j \in DOMAIN jobs :
        /\ jobs[j].status = "completed"
        /\ remote[j].checks = maxAttempts
        /\ remote[j].waits = maxAttempts - 1

\* The upstream requests of getResult: those open, and the one just answered.
UpstreamRequests ==
    {[id |-> proxy[i].id, url |-> proxy[i].url] : i \in 1..Len(proxy)}
      \cup (IF resp.op = "getResult" /\ Has(resp, "fetched")
            THEN {[id |-> resp.id, url |-> resp.fetched]} ELSE {})

\* C24: every upstream request of getResult goes to a URL whose host is on the
\* allowlist, is made for a known job with a stored reference on the allowlist
\* while GEMINI_API_KEY is set, and carries the credential; a getResult
\* answered 404, 403 or 500 for an unset key has made no upstream request, and
\* a step in which getResult answers so opens none.
C24_FetchOnlyAllowlisted ==
    /\ \A q \in UpstreamRequests :
          /\ OnAllowlist(q.url)
          /\ Known(q.id) /\ Has(jobs[q.id], "videoUrl")
          /\ OnAllowlist(jobs[q.id].videoUrl)
          /\ ParseUrl(q.url).hostname = ParseUrl(jobs[q.id].videoUrl).hostname
          /\ env.GEMINI_API_KEY # ""
          /\ q.url[Len(q.url)] = env.GEMINI_API_KEY
    /\ (resp.op = "getResult" /\ ~Has(resp, "fetched")) =>
          /\ resp.code \in {403, 404, 500}
          /\ resp.code = 500 => env.GEMINI_API_KEY = ""
          /\ resp.code = 403 => ~OnAllowlist(jobs[resp.id].videoUrl)
    /\ (resp.op = "getResult" /\ Has(resp, "fetched")) => resp.code \in {200, 500}

C24_Witness ==
    /\ Len(proxy) = 1
    /\ ParseUrl(proxy[1].url).hostname = <<"sub", ".">> \o STORAGE_HOST
    /\ proxy[1].url[Len(proxy[1].url)] = KEY

\* C25: the URL getResult requests upstream is the keyed URL generateVideo
\* returned for the job.  Violated: when the provider's URI carries the key
\* parameter before other parameters, replace() at video.ts:313 removes
\* "?key=..." and leaves the URL without "?", and the handler appends "?key=..."
\* after the other parameters (video.ts:241-243).
C25_KeyRoundTrip ==
    \A q \in UpstreamRequests : q.url = rets[q.id][6].value

\* The round trip holds where the key parameter is the last of the keyed URL
\* (the provider's URI had none, or had it at the end).
KeyLast(url) ==
    /\ Len(url) >= 3
    /\ url[Len(url) - 1] = "key="
    /\ \A i \in 1..(Len(url) - 2) : url[i] # "key="

RoundTripWhenKeyLast ==
    \A q \in UpstreamRequests :
        KeyLast(rets[q.id][6].value) => q.url = rets[q.id][6].value

\* C26: with an image provider that answers every status check "completed"
\* without a URL, each check is followed by a wait and another check (the stage
\* neither returns nor fails with a provider error), and the stage ends only
\* after 60 checks and 60 waits, with "Image generation timeout" and the job
\* failed; generateVideo is never called.
C26_CompletedWithoutUrlPending ==
    \A j \in DOMAIN jobs :
        LET r == remote[j]
            polling == Len(calls[j]) >= 5
            ended == task[j].pc = "done"
        IN  /\ Len(calls[j]) <= 5
            /\ \A k \in 1..Len(rets[j]) : rets[j][k].fn # "pollHiggsfieldJob"
            /\ (polling /\ ~ended) =>
                  /\ jobs[j].status = "processing"
                  /\ r.checks < maxAttempts \/ task[j].pc = "pollSleep"
                  /\ task[j].pc = "pollSleep" => r.seen = "pending" /\ r.checks = r.waits + 1
                  /\ task[j].pc = "pollFetch" => r.checks = r.waits
            /\ (polling /\ ended /\ r.checks > 0) =>
                  /\ r.checks = maxAttempts /\ r.waits = maxAttempts
                  /\ jobs[j].status = "failed"
                  /\ jobs[j].error = "Image generation timeout"

C26_Witness ==
    \E j \in DOMAIN jobs :
        /\ jobs[j].status = "failed"
        /\ jobs[j].error = "Image generation timeout"
        /\ remote[j].checks = maxAttempts
        /\ calls[j][Len(calls[j])].fn = "pollHiggsfieldJob"
        /\ resp.op = "getJob" /\ resp.code = 200 /\ resp.body.status = "failed"

====
